---- MODULE Spec2Model ----
(***************************************************************************)
(* Model of src/src/utils.js (react-furi): combineFuri, basicFuri,         *)
(* parseFuri, parseFuriObject, parseFuriString and generatePairs, with the *)
(* wanakana and just-zip-it functions they import.                         *)
(*                                                                         *)
(* A JavaScript string is a sequence of UTF-16 code units (integers):      *)
(*   お 12362   ご 12372   カ 12459   日 26085   本 26412                  *)
(*   '0'..'9' 48..57   '-' 45   ':' 58   ';' 59                            *)
(* A pair [furigana, base] is <<furigana, base>>; a furi location          *)
(* [[start, end], text] is <<<<start, end>>, text>>.                       *)
(***************************************************************************)
EXTENDS Integers, Sequences, FiniteSets, TLC

VARIABLES pc, call, word, reading, furi, furiSrc, furiLocs, ret

vars == <<pc, call, word, reading, furi, furiSrc, furiLocs, ret>>

(***************************************************************************)
(* Bounds of the explored inputs.                                          *)
(***************************************************************************)
\* longest word given to combineFuri and generatePairs
MaxLen == 2
\* longest word given to basicFuri
MaxBasicWord == 4
\* longest reading given to basicFuri
MaxReading == 3
\* most entries of a furi string / mapping, most spans handed to generatePairs
MaxSpans == 2

\* the characters words and readings are drawn from
KanjiChars == {26085, 26412}
HiraganaChars == {12362, 12372}
KatakanaChars == {12459}
KanaChars == HiraganaChars \cup KatakanaChars
WordChars == KanjiChars \cup KanaChars

\* the phonetic texts furi entries carry
Texts == {<<12362>>, <<12372>>}

(***************************************************************************)
(* JavaScript values and string primitives.                                *)
(***************************************************************************)
\* the value undefined; no string holds the code unit -1
Undefined == <<-1>>

Min(a, b) == IF a < b THEN a ELSE b

Max(a, b) == IF a > b THEN a ELSE b

\* String.prototype.slice(a, b) for a, b >= 0
slice(s, a, b) ==
  LET from == Min(a, Len(s))
      to == Min(b, Len(s))
  IN IF from >= to THEN <<>> ELSE SubSeq(s, from + 1, to)

\* String.prototype.slice(a) for a >= 0
sliceFrom(s, a) == slice(s, a, Len(s))

startsWith(s, p) == Len(p) <= Len(s) /\ SubSeq(s, 1, Len(p)) = p

endsWith(s, p) == Len(p) <= Len(s) /\ SubSeq(s, Len(s) - Len(p) + 1, Len(s)) = p

\* str.replace(RegExp(`^${p}`), '') for p without regular-expression metacharacters
replacePrefix(s, p) == IF startsWith(s, p) THEN sliceFrom(s, Len(p)) ELSE s

\* str.replace(RegExp(`${p}$`), '') for p without regular-expression metacharacters
replaceSuffix(s, p) == IF endsWith(s, p) THEN slice(s, 0, Len(s) - Len(p)) ELSE s

RECURSIVE splitFrom(_, _, _, _)
splitFrom(s, sep, i, cur) ==
  IF i > Len(s) THEN <<cur>>
  ELSE IF s[i] = sep THEN <<cur>> \o splitFrom(s, sep, i + 1, <<>>)
  ELSE splitFrom(s, sep, i + 1, Append(cur, s[i]))

\* String.prototype.split(sep) for a one-character separator
split(s, sep) == splitFrom(s, sep, 1, <<>>)

RECURSIVE digitsValue(_, _, _)
digitsValue(s, i, acc) ==
  IF i > Len(s) THEN acc ELSE digitsValue(s, i + 1, acc * 10 + (s[i] - 48))

\* Number(s) for s a string of decimal digits; Number('') is 0
Number(s) == digitsValue(s, 1, 0)

RECURSIVE concat(_)
concat(ss) == IF ss = <<>> THEN <<>> ELSE Head(ss) \o concat(Tail(ss))

(***************************************************************************)
(* wanakana: character classes, tokenize, stripOkurigana.                  *)
(***************************************************************************)
isCharKanji(c) == c \in 19968..40879

isCharLongDash(c) == c = 12540

isCharHiragana(c) == isCharLongDash(c) \/ c \in 12353..12438

isCharKatakana(c) == c \in 12449..12540

isCharKana(c) == isCharHiragana(c) \/ isCharKatakana(c)

isCharJapanese(c) == isCharKana(c) \/ isCharKanji(c)

\* isKanji(input): input is not empty and every character is a kanji
isKanji(s) == s # <<>> /\ \A i \in 1..Len(s) : isCharKanji(s[i])

isHiragana(s) == s # <<>> /\ \A i \in 1..Len(s) : isCharHiragana(s[i])

isKatakana(s) == s # <<>> /\ \A i \in 1..Len(s) : isCharKatakana(s[i])

isKana(s) == s # <<>> /\ \A i \in 1..Len(s) : isCharKana(s[i])

isJapanese(s) == s # <<>> /\ \A i \in 1..Len(s) : isCharJapanese(s[i])

\* the character types tokenize tells apart, for the characters used here
getType(c) ==
  IF c = 32 THEN "space"
  ELSE IF c \in 48..57 THEN "englishNumeral"
  ELSE IF c \in 33..47 \/ c \in 58..63 THEN "englishPunctuation"
  ELSE IF isCharKanji(c) THEN "kanji"
  ELSE IF isCharHiragana(c) THEN "hiragana"
  ELSE IF isCharKatakana(c) THEN "katakana"
  ELSE "other"

RECURSIVE tokenizeFrom(_, _, _)
tokenizeFrom(s, i, tokens) ==
  IF i > Len(s) THEN tokens
  ELSE IF i > 1 /\ getType(s[i]) = getType(s[i - 1])
    THEN tokenizeFrom(s, i + 1,
           [tokens EXCEPT ![Len(tokens)] = Append(tokens[Len(tokens)], s[i])])
    ELSE tokenizeFrom(s, i + 1, Append(tokens, <<s[i]>>))

\* tokenize(input): the maximal runs of characters of one type, in order
tokenize(s) == tokenizeFrom(s, 1, <<>>)

\* stripOkurigana(input, { leading, matchKanji })
stripOkurigana(input, leading, matchKanji) ==
  IF \/ ~isJapanese(input)
     \/ (leading /\ ~isKana(slice(input, 0, 1)))
     \/ (~leading /\ ~isKana(sliceFrom(input, Len(input) - 1)))
     \/ (matchKanji # <<>> /\ ~(\E i \in 1..Len(matchKanji) : isCharKanji(matchKanji[i])))
     \/ (matchKanji = <<>> /\ isKana(input))
  THEN input
  ELSE LET chars == IF matchKanji # <<>> THEN matchKanji ELSE input
           toks == tokenize(chars)
       IN IF leading THEN replacePrefix(input, toks[1])
          ELSE replaceSuffix(input, toks[Len(toks)])

(***************************************************************************)
(* just-zip-it: zip(a, b) is as long as the longer argument; the shorter   *)
(* one is padded with undefined.                                           *)
(***************************************************************************)
zip(a, b) ==
  [i \in 1..Max(Len(a), Len(b)) |->
     <<IF i <= Len(a) THEN a[i] ELSE Undefined,
       IF i <= Len(b) THEN b[i] ELSE Undefined>>]

(***************************************************************************)
(* The regular expression of basicFuri (line 58): one capture group per    *)
(* token of the inner word, a greedy any-characters group for a kanji      *)
(* token and the literal text for any other token.  match() finds the      *)
(* leftmost match; a greedy group gives characters back on backtracking.   *)
(***************************************************************************)
NoMatch == [ok |-> FALSE, caps |-> <<>>]

RECURSIVE matchGroups(_, _, _, _)
RECURSIVE matchWild(_, _, _, _, _)
\* match groups k.. of toks against str from position pos (1-based)
matchGroups(toks, k, str, pos) ==
  IF k > Len(toks) THEN [ok |-> TRUE, caps |-> <<>>]
  ELSE IF isKanji(toks[k]) THEN matchWild(toks, k, str, pos, Len(str) - pos + 1)
  ELSE IF startsWith(sliceFrom(str, pos - 1), toks[k])
    THEN LET r == matchGroups(toks, k + 1, str, pos + Len(toks[k]))
         IN IF r.ok THEN [ok |-> TRUE, caps |-> <<toks[k]>> \o r.caps] ELSE NoMatch
    ELSE NoMatch

\* group k is the greedy wildcard: try n characters, then n-1, ... down to none
matchWild(toks, k, str, pos, n) ==
  LET r == matchGroups(toks, k + 1, str, pos + n)
  IN IF r.ok THEN [ok |-> TRUE, caps |-> <<slice(str, pos - 1, pos - 1 + n)>> \o r.caps]
     ELSE IF n = 0 THEN NoMatch
     ELSE matchWild(toks, k, str, pos, n - 1)

RECURSIVE matchAt(_, _, _)
\* the first start position, from pos on, at which the groups match
matchAt(toks, str, pos) ==
  IF pos > Len(str) + 1 THEN NoMatch
  ELSE LET r == matchGroups(toks, 1, str, pos)
       IN IF r.ok THEN [ok |-> TRUE, caps |-> r.caps, index |-> pos - 1,
                        length |-> Len(concat(r.caps))]
          ELSE matchAt(toks, str, pos + 1)

\* readingInner.match(re), re built from kanjiSplit
match(str, kanjiSplit) == matchAt(kanjiSplit, str, 1)

(***************************************************************************)
(* basicFuri (lines 46-75).                                                *)
(***************************************************************************)
bikagoOf(w, r) == slice(r, 0, Len(w) - Len(stripOkurigana(w, TRUE, <<>>)))

okuriganaOf(w, r) == sliceFrom(r, Len(stripOkurigana(r, FALSE, w)))

removeExtraneousKana(str, bikago, okurigana) ==
  replaceSuffix(replacePrefix(str, bikago), okurigana)

wordInnerOf(w, r) == removeExtraneousKana(w, bikagoOf(w, r), okuriganaOf(w, r))

readingInnerOf(w, r) == removeExtraneousKana(r, bikagoOf(w, r), okuriganaOf(w, r))

\* const [, ...kanaSplit] = readingInner.match(re) || []
kanaSplitOf(w, r) ==
  LET m == match(readingInnerOf(w, r), tokenize(wordInnerOf(w, r)))
  IN IF m.ok THEN m.caps ELSE <<>>

removeRedundantReadings(p) ==
  IF p[1] = p[2] \/ p[1] = Undefined \/ p[1] = <<>> THEN <<<<>>, p[2]>> ELSE p

\* basicFuri without line 66-68: the prefix affix is not put back
basicFuri_noBikago(w, r) ==
  LET okurigana == okuriganaOf(w, r)
      kanjiSplit == tokenize(wordInnerOf(w, r))
      zipped == zip(kanaSplitOf(w, r), kanjiSplit)
      mapped == [i \in 1..Len(zipped) |-> removeRedundantReadings(zipped[i])]
  IN IF okurigana # <<>> THEN Append(mapped, <<<<>>, okurigana>>) ELSE mapped

basicFuri(w, r) ==
  LET bikago == bikagoOf(w, r)
      okurigana == okuriganaOf(w, r)
      kanjiSplit == tokenize(wordInnerOf(w, r))
      zipped == zip(kanaSplitOf(w, r), kanjiSplit)
      mapped == [i \in 1..Len(zipped) |-> removeRedundantReadings(zipped[i])]
      unshifted == IF bikago # <<>> THEN <<<<<<>>, bikago>>>> \o mapped ELSE mapped
  IN IF okurigana # <<>> THEN Append(unshifted, <<<<>>, okurigana>>) ELSE unshifted

(***************************************************************************)
(* parseFuri, parseFuriObject, parseFuriString (lines 77-107).             *)
(* The furi argument is [type, str, entries]: type is "undefined",         *)
(* "string" (str holds the text) or "object" (entries holds the            *)
(* <<key, value>> properties in the order they were written).              *)
(***************************************************************************)
RECURSIVE insertByKey(_, _)
insertByKey(sorted, e) ==
  IF sorted = <<>> THEN <<e>>
  ELSE IF Number(e[1]) < Number(Head(sorted)[1]) THEN <<e>> \o sorted
  ELSE IF Number(e[1]) = Number(Head(sorted)[1]) THEN <<e>> \o Tail(sorted)
  ELSE <<Head(sorted)>> \o insertByKey(Tail(sorted), e)

\* the properties in the order they were written
ObjectEntries_insertionOrder(props) == props

RECURSIVE ObjectEntries(_)
\* Object.entries of an object whose keys are array indices: ascending
\* numeric key order whatever the order of creation; a key written twice
\* keeps its last value
ObjectEntries(props) ==
  IF props = <<>> THEN <<>>
  ELSE insertByKey(ObjectEntries(SubSeq(props, 1, Len(props) - 1)), props[Len(props)])

parseFuriObject(props) ==
  LET es == ObjectEntries(props)
  IN [i \in 1..Len(es) |-> <<<<Number(es[i][1]), Number(es[i][1]) + 1>>, es[i][2]>>]

\* parseFuriEntry taking a written end index as the exclusive end
parseFuriEntry_endNotBumped(entry) ==
  LET parts == split(entry, 58)
      content == IF Len(parts) >= 2 THEN parts[2] ELSE Undefined
      nums == split(parts[1], 45)
      start == Number(nums[1])
      endGiven == Len(nums) >= 2 /\ Number(nums[2]) # 0
  IN <<<<start, IF endGiven THEN Number(nums[2]) ELSE start + 1>>, content>>

parseFuriEntry(entry) ==
  LET parts == split(entry, 58)
      indexes == parts[1]
      content == IF Len(parts) >= 2 THEN parts[2] ELSE Undefined
      nums == split(indexes, 45)
      start == Number(nums[1])
      endGiven == Len(nums) >= 2 /\ Number(nums[2]) # 0
  IN <<<<start, IF endGiven THEN Number(nums[2]) + 1 ELSE start + 1>>, content>>

parseFuriString(locations) ==
  LET entries == split(locations, 59)
  IN [i \in 1..Len(entries) |-> parseFuriEntry(entries[i])]

parseFuri(data) ==
  IF data.type = "string" THEN parseFuriString(data.str)
  ELSE IF data.type = "object" THEN parseFuriObject(data.entries)
  ELSE parseFuriObject(<<>>)

(***************************************************************************)
(* generatePairs (lines 115-135).                                          *)
(***************************************************************************)
RECURSIVE reducePairs(_, _, _, _, _)
reducePairs(w, locs, index, prevCharEnd, pairs) ==
  IF index > Len(locs) THEN pairs
  ELSE LET start == locs[index][1][1]
           end == locs[index][1][2]
           furiText == locs[index][2]
           p1 == IF start # prevCharEnd
                 THEN Append(pairs, <<<<>>, slice(w, prevCharEnd, start)>>)
                 ELSE pairs
           p2 == Append(p1, <<furiText, slice(w, start, end)>>)
           p3 == IF end < Len(w) /\ index = Len(locs)
                 THEN Append(p2, <<<<>>, sliceFrom(w, end)>>)
                 ELSE p2
       IN reducePairs(w, locs, index + 1, end, p3)

RECURSIVE reducePairs_anySpan(_, _, _, _, _)
reducePairs_anySpan(w, locs, index, prevCharEnd, pairs) ==
  IF index > Len(locs) THEN pairs
  ELSE LET start == locs[index][1][1]
           end == locs[index][1][2]
           p1 == IF start # prevCharEnd
                 THEN Append(pairs, <<<<>>, slice(w, prevCharEnd, start)>>)
                 ELSE pairs
           p2 == Append(p1, <<locs[index][2], slice(w, start, end)>>)
           p3 == IF end < Len(w) THEN Append(p2, <<<<>>, sliceFrom(w, end)>>) ELSE p2
       IN reducePairs_anySpan(w, locs, index + 1, end, p3)

\* generatePairs adding the remaining characters after every span, not only
\* after the last one
generatePairs_remainderAfterAnySpan(w, locs) == reducePairs_anySpan(w, locs, 1, 0, <<>>)

generatePairs(w, locs) == reducePairs(w, locs, 1, 0, <<>>)

(***************************************************************************)
(* combineFuri (lines 22-38).                                              *)
(***************************************************************************)
EmptyString == [type |-> "string", str |-> <<>>, entries |-> <<>>]

\* the default parameter furi = ''
furiOrDefault(f) == IF f.type = "undefined" THEN EmptyString ELSE f

\* !furi: only the empty string is falsy, an object never is
isFalsy(f) == f.type = "string" /\ f.str = <<>>

isSpecialReading(w, f) == Len(parseFuri(f)) = 1 /\ \A i \in 1..Len(w) : isCharKanji(w[i])

isKanaWord(w) == ~(\E i \in 1..Len(w) : isCharKanji(w[i]))

isWanikaniMadness(r) ==
  /\ \E i \in 1..Len(r) : isCharHiragana(r[i])
  /\ \E i \in 1..Len(r) : isCharKatakana(r[i])

\* combineFuri testing the trivial case after the dispatch instead of before
combineFuri_dispatchFirst(w, r, f0) ==
  LET f == furiOrDefault(f0)
  IN IF isFalsy(f) \/ isSpecialReading(w, f) \/ isWanikaniMadness(r)
       THEN (IF w = r \/ isKanaWord(w) THEN <<<<<<>>, w>>>> ELSE basicFuri(w, r))
       ELSE generatePairs(w, parseFuri(f))

\* combineFuri without the isSpecialReading test
combineFuri_noSpecialReading(w, r, f0) ==
  LET f == furiOrDefault(f0)
  IN IF w = r \/ isKanaWord(w) THEN <<<<<<>>, w>>>>
     ELSE IF isFalsy(f) \/ isWanikaniMadness(r)
       THEN basicFuri(w, r)
       ELSE generatePairs(w, parseFuri(f))

combineFuri(w, r, f0) ==
  LET f == furiOrDefault(f0)
  IN IF w = r \/ isKanaWord(w) THEN <<<<<<>>, w>>>>
     ELSE IF isFalsy(f) \/ isSpecialReading(w, f) \/ isWanikaniMadness(r)
       THEN basicFuri(w, r)
       ELSE generatePairs(w, parseFuri(f))

(***************************************************************************)
(* Inputs.                                                                 *)
(***************************************************************************)
SeqsUpTo(S, n) == UNION {[1..k -> S] : k \in 0..n}

Words == SeqsUpTo(WordChars, MaxLen)

KanaReadings(n) == SeqsUpTo(KanaChars, n)

\* the words basicFuri is called with: longer, over one kanji
BasicWords == SeqsUpTo({26085} \cup KanaChars, MaxBasicWord)

RECURSIVE digits(_)
\* the decimal digits of n >= 0
digits(n) == IF n < 10 THEN <<48 + n>> ELSE Append(digits(n \div 10), 48 + (n % 10))

\* a furi string entry as written: `start:text` or `start-end:text`
formatEntry(e) ==
  digits(e.start) \o (IF e.hasEnd THEN <<45>> \o digits(e.end) ELSE <<>>) \o <<58>> \o e.text

RECURSIVE formatFuri(_)
\* the entries joined by `;`
formatFuri(es) ==
  IF es = <<>> THEN <<>>
  ELSE IF Len(es) = 1 THEN formatEntry(es[1])
  ELSE formatEntry(es[1]) \o <<59>> \o formatFuri(Tail(es))

furiString(es) == [type |-> "string", str |-> formatFuri(es), entries |-> <<>>]

furiObject(es) ==
  [type |-> "object", str |-> <<>>,
   entries |-> [i \in 1..Len(es) |-> <<digits(es[i].start), es[i].text>>]]

furiAbsent == [type |-> "undefined", str |-> <<>>, entries |-> <<>>]

EntriesOver(S) ==
  [start : S, hasEnd : {FALSE}, end : {0}, text : Texts]
    \cup [start : S, hasEnd : {TRUE}, end : S, text : Texts]

\* the last character an entry covers
lastOf(e) == IF e.hasEnd THEN e.end ELSE e.start

\* entries in ascending order, not overlapping, inside a word of n characters
Placed(es, n) ==
  /\ \A i \in 1..Len(es) :
       /\ es[i].start <= lastOf(es[i]) /\ lastOf(es[i]) < n
       /\ es[i].hasEnd => es[i].end > es[i].start
  /\ \A i \in 1..Len(es) - 1 : lastOf(es[i]) < es[i + 1].start

PlacedEntryLists(n) ==
  {es \in SeqsUpTo(EntriesOver(0..(n - 1)), Min(n, MaxSpans)) : Placed(es, n)}

\* the placements combineFuri is called with for a word of n characters: none, a
\* furi string, or an object (one key per character)
FuriInputs(n) ==
  {<<furiAbsent, <<>>>>}
    \cup {<<furiString(es), es>> : es \in PlacedEntryLists(n)}
    \cup {<<furiObject(es), es>> :
            es \in {x \in PlacedEntryLists(n) : \A i \in 1..Len(x) : ~x[i].hasEnd}}

\* the indexes written in the furi strings and objects given to parseFuri
ParseIndexes == {0, 1, 10}

ParseEntryLists == SeqsUpTo(EntriesOver(ParseIndexes), MaxSpans)

ParseInputs ==
  {<<furiAbsent, <<>>>>}
    \cup {<<furiString(es), es>> : es \in ParseEntryLists}
    \cup {<<furiObject(es), es>> :
            es \in {x \in ParseEntryLists :
                      /\ \A i \in 1..Len(x) : ~x[i].hasEnd
                      /\ \A i, j \in 1..Len(x) : i # j => x[i].start # x[j].start}}

\* the words and spans generatePairs is called with
PairChars == {26085, 12362}

PairWords == SeqsUpTo(PairChars, MaxLen)

Spans == {<<<<s, e>>, t>> : s \in 0..MaxLen, e \in 0..MaxLen, t \in Texts}

SpanLists == {ls \in SeqsUpTo(Spans, MaxSpans) : \A i \in 1..Len(ls) : ls[i][1][1] <= ls[i][1][2]}

(***************************************************************************)
(* The calls.  A behaviour is one call of one exported function: the       *)
(* initial state holds the arguments, the action the function's run.       *)
(***************************************************************************)
InitCombine ==
  /\ pc = "start" /\ call = "combineFuri"
  /\ \E n \in 0..MaxLen :
       \E f \in FuriInputs(n) :
         /\ furi = f[1] /\ furiSrc = f[2]
         /\ word \in [1..n -> WordChars]
  /\ reading \in KanaReadings(MaxLen) \cup {word}
  /\ furiLocs = <<>> /\ ret = <<>>

InitBasic ==
  /\ pc = "start" /\ call = "basicFuri"
  /\ word \in BasicWords
  /\ reading \in KanaReadings(MaxReading)
  /\ furi = furiAbsent /\ furiSrc = <<>>
  /\ furiLocs = <<>> /\ ret = <<>>

InitPairs ==
  /\ pc = "start" /\ call = "generatePairs"
  /\ word \in PairWords
  /\ reading = <<>>
  /\ furi = furiAbsent /\ furiSrc = <<>>
  /\ furiLocs \in SpanLists /\ ret = <<>>

InitParse ==
  /\ pc = "start" /\ call = "parseFuri"
  /\ word = <<>> /\ reading = <<>>
  /\ \E f \in ParseInputs : furi = f[1] /\ furiSrc = f[2]
  /\ furiLocs = <<>> /\ ret = <<>>

Init == InitCombine \/ InitBasic \/ InitPairs \/ InitParse

CombineFuri ==
  /\ pc = "start" /\ call = "combineFuri"
  /\ furiLocs' = parseFuri(furiOrDefault(furi))
  /\ ret' = combineFuri(word, reading, furi)
  /\ pc' = "done"
  /\ UNCHANGED <<call, word, reading, furi, furiSrc>>

BasicFuri ==
  /\ pc = "start" /\ call = "basicFuri"
  /\ ret' = basicFuri(word, reading)
  /\ pc' = "done"
  /\ UNCHANGED <<call, word, reading, furi, furiSrc, furiLocs>>

GeneratePairs ==
  /\ pc = "start" /\ call = "generatePairs"
  /\ ret' = generatePairs(word, furiLocs)
  /\ pc' = "done"
  /\ UNCHANGED <<call, word, reading, furi, furiSrc, furiLocs>>

ParseFuri ==
  /\ pc = "start" /\ call = "parseFuri"
  /\ furiLocs' = parseFuri(furi)
  /\ pc' = "done"
  /\ UNCHANGED <<call, word, reading, furi, furiSrc, ret>>

Next == CombineFuri \/ BasicFuri \/ GeneratePairs \/ ParseFuri

Spec == Init /\ [][Next]_vars

SpecCombine == InitCombine /\ [][CombineFuri]_vars

SpecBasic == InitBasic /\ [][BasicFuri]_vars

SpecPairs == InitPairs /\ [][GeneratePairs]_vars

SpecParse == InitParse /\ [][ParseFuri]_vars

Returned(f) == pc = "done" /\ call = f

(***************************************************************************)
(* Properties.                                                             *)
(***************************************************************************)
\* the base (second) components of the pairs, concatenated in order
bases(pairs) == concat([i \in 1..Len(pairs) |-> pairs[i][2]])

\* each pair read as its furigana when it has one, as its base otherwise
readBack(pairs) ==
  concat([i \in 1..Len(pairs) |-> IF pairs[i][1] # <<>> THEN pairs[i][1] ELSE pairs[i][2]])

hasKanji(w) == \E i \in 1..Len(w) : isCharKanji(w[i])

allKanji(w) == \A i \in 1..Len(w) : isCharKanji(w[i])

furiGiven == ~(furi.type = "undefined" \/ (furi.type = "string" /\ furi.str = <<>>))

\* the span an entry stands for: end index + 1 when given, start + 1 otherwise
spanOf(e) == <<<<e.start, IF e.hasEnd THEN e.end + 1 ELSE e.start + 1>>, e.text>>

\* C1: the base components of the pairs combineFuri returns, concatenated in
\* order, give back the word, for every word, reading and furi.
C1_Coverage == Returned("combineFuri") => bases(ret) = word

\* C2: when word equals reading, or word holds no kanji, combineFuri returns
\* exactly the one pair ('', word), whatever the reading and the furi.
C2_TrivialCase ==
  (Returned("combineFuri") /\ (word = reading \/ ~hasKanji(word)))
    => ret = <<<<<<>>, word>>>>

C2_Witness ==
  /\ Returned("combineFuri")
  /\ word = reading /\ hasKanji(word) /\ Len(word) >= 2
  /\ furiGiven /\ Len(furiLocs) >= 2
  /\ ret = <<<<<<>>, word>>>>

\* C3: outside the trivial case combineFuri returns basicFuri(word, reading)
\* when furi is absent, or furi parses to exactly one span and every character
\* of word is kanji, or reading holds both a hiragana and a katakana character;
\* in every other case it returns generatePairs(word, parseFuri(furi)).
C3_Dispatch ==
  (Returned("combineFuri") /\ word # reading /\ hasKanji(word))
    => ret = IF \/ ~furiGiven
                \/ (Len(furiLocs) = 1 /\ allKanji(word))
                \/ (/\ \E i \in 1..Len(reading) : reading[i] \in HiraganaChars
                    /\ \E i \in 1..Len(reading) : reading[i] \in KatakanaChars)
             THEN basicFuri(word, reading)
             ELSE generatePairs(word, furiLocs)

\* a single span over an all-kanji word: the heuristic result is returned, and
\* it differs from what the span itself would give
C3_Witness ==
  /\ Returned("combineFuri")
  /\ word # reading /\ allKanji(word) /\ Len(word) >= 2
  /\ furiGiven /\ Len(furiLocs) = 1
  /\ ret = basicFuri(word, reading)
  /\ ret # generatePairs(word, furiLocs)

sortedSpans(locs) == \A i \in 1..Len(locs) - 1 : locs[i][1][2] <= locs[i + 1][1][1]

inBounds(locs, w) ==
  \A i \in 1..Len(locs) : locs[i][1][1] <= locs[i][1][2] /\ locs[i][1][2] <= Len(w)

\* C4: for spans sorted ascending, not overlapping and inside the word, the base
\* components of generatePairs(word, spans) concatenate to the word.
C4_PairsCoverage ==
  (Returned("generatePairs") /\ sortedSpans(furiLocs) /\ inBounds(furiLocs, word))
    => bases(ret) = word

\* first span at 0, each span starting where the previous ends, last span
\* ending at the length of the word
contiguous(locs, w) ==
  /\ inBounds(locs, w)
  /\ IF locs = <<>> THEN w = <<>>
     ELSE /\ locs[1][1][1] = 0
          /\ locs[Len(locs)][1][2] = Len(w)
          /\ \A i \in 1..Len(locs) - 1 : locs[i + 1][1][1] = locs[i][1][2]

\* C5: for spans covering the word contiguously, generatePairs returns one pair
\* per span, the i-th being (text of span i, word[start_i:end_i]).
C5_FullCoverage ==
  (Returned("generatePairs") /\ contiguous(furiLocs, word))
    => /\ Len(ret) = Len(furiLocs)
       /\ \A i \in 1..Len(furiLocs) :
            ret[i] = <<furiLocs[i][2],
                       SubSeq(word, furiLocs[i][1][1] + 1, furiLocs[i][1][2])>>

\* two spans covering a two-character word, one text equal to its base
C5_Witness ==
  /\ Returned("generatePairs")
  /\ contiguous(furiLocs, word) /\ Len(furiLocs) >= 2 /\ Len(word) >= 2
  /\ \E i \in 1..Len(furiLocs) : furiLocs[i][2] = ret[i][2]
  /\ Len(ret) = Len(furiLocs)

wellFormed(es) ==
  /\ Len(es) >= 1
  /\ \A i \in 1..Len(es) : es[i].hasEnd => es[i].end >= es[i].start

\* C6: every well-formed entry of a furi string parses to the span from start to
\* end index + 1 when the end index is written (0 included), to start + 1 when
\* it is not, with its text.
C6_StringSpans ==
  (Returned("parseFuri") /\ furi.type = "string" /\ wellFormed(furiSrc))
    => /\ Len(furiLocs) = Len(furiSrc)
       /\ \A i \in 1..Len(furiSrc) : furiLocs[i] = spanOf(furiSrc[i])

\* a string with the entry `0-0:text` and an entry whose end index is greater
\* than its start
C6_Witness ==
  /\ Returned("parseFuri") /\ furi.type = "string" /\ wellFormed(furiSrc)
  /\ \E i \in 1..Len(furiSrc) : furiSrc[i].hasEnd /\ furiSrc[i].end = 0
  /\ \E i \in 1..Len(furiSrc) : furiSrc[i].hasEnd /\ furiSrc[i].end > furiSrc[i].start
  /\ Len(furiLocs) = 2

\* C7: no pair combineFuri returns has a non-empty furigana equal to its base.
C7_NoRedundantFurigana ==
  Returned("combineFuri")
    => \A i \in 1..Len(ret) : ret[i][1] # <<>> => ret[i][1] # ret[i][2]

\* C8: the base components of basicFuri(word, reading), concatenated in order,
\* give back the word, for every word and reading.
C8_BasicCoverage == Returned("basicFuri") => bases(ret) = word

\* C9 as stated: the spans parseFuri returns follow the order in which the
\* entries were given, for a string and for a mapping alike.
C9_GivenOrder ==
  (Returned("parseFuri") /\ furi.type \in {"string", "object"} /\ Len(furiSrc) >= 1)
    => /\ Len(furiLocs) = Len(furiSrc)
       /\ \A i \in 1..Len(furiSrc) :
            furiLocs[i][1][1] = furiSrc[i].start /\ furiLocs[i][2] = furiSrc[i].text

\* C9 amended: the spans of a string follow the order of its entries; the spans
\* of a mapping come in ascending order of its index keys, whatever the order
\* the keys were written in, one span per key with the key's text.
C9_StringOrderMappingAscending ==
  (Returned("parseFuri") /\ Len(furiSrc) >= 1)
    => /\ Len(furiLocs) = Len(furiSrc)
       /\ furi.type = "string" =>
            \A i \in 1..Len(furiSrc) :
              furiLocs[i][1][1] = furiSrc[i].start /\ furiLocs[i][2] = furiSrc[i].text
       /\ furi.type = "object" =>
            /\ \A i \in 1..Len(furiLocs) - 1 : furiLocs[i][1][1] < furiLocs[i + 1][1][1]
            /\ \A i \in 1..Len(furiSrc) : \E j \in 1..Len(furiLocs) :
                 furiLocs[j] = <<<<furiSrc[i].start, furiSrc[i].start + 1>>, furiSrc[i].text>>

\* a mapping whose keys were written in descending order
C9_Witness ==
  /\ Returned("parseFuri") /\ furi.type = "object" /\ Len(furiSrc) >= 2
  /\ \A i \in 1..Len(furiSrc) - 1 : furiSrc[i].start > furiSrc[i + 1].start
  /\ furiLocs[1][1][1] = furiSrc[Len(furiSrc)].start

\* the pattern built from the inner word matches the inner reading
patternMatches(w, r) == match(readingInnerOf(w, r), tokenize(wordInnerOf(w, r))).ok

\* C10 as stated: when the pattern matches, the pairs of basicFuri(word, reading)
\* read back (furigana when not empty, base otherwise) as the reading.
C10_ReadingReconstruction ==
  (Returned("basicFuri") /\ patternMatches(word, reading)) => readBack(ret) = reading

\* the match starts at the first character of the inner reading and ends at its
\* last one
matchesWhole(w, r) ==
  LET m == match(readingInnerOf(w, r), tokenize(wordInnerOf(w, r)))
  IN m.ok /\ m.index = 0 /\ m.length = Len(readingInnerOf(w, r))

\* every kanji token of the inner word captured at least one character
kanjiCapturesNonEmpty(w, r) ==
  LET toks == tokenize(wordInnerOf(w, r))
      caps == kanaSplitOf(w, r)
  IN \A i \in 1..Len(toks) : isKanji(toks[i]) => (i <= Len(caps) /\ caps[i] # <<>>)

\* the prefix affix and the suffix affix are disjoint parts of the reading
affixesDisjoint(w, r) == Len(bikagoOf(w, r)) + Len(okuriganaOf(w, r)) <= Len(r)

\* C10 amended: when the pattern matches the whole inner reading, every kanji
\* token captures at least one character and the two affixes do not overlap in
\* the reading, the pairs of basicFuri(word, reading) read back as the reading.
C10_ReconstructionOfWholeMatch ==
  (/\ Returned("basicFuri")
   /\ matchesWhole(word, reading)
   /\ kanjiCapturesNonEmpty(word, reading)
   /\ affixesDisjoint(word, reading))
    => readBack(ret) = reading

\* a word with a prefix affix, a kanji and a suffix affix, read back whole
C10_Witness ==
  /\ Returned("basicFuri")
  /\ matchesWhole(word, reading)
  /\ kanjiCapturesNonEmpty(word, reading)
  /\ affixesDisjoint(word, reading)
  /\ hasKanji(word)
  /\ bikagoOf(word, reading) # <<>> /\ okuriganaOf(word, reading) # <<>>
  /\ Len(ret) >= 3 /\ readBack(ret) = reading

====
